---- MODULE Spec2Model ----
(***************************************************************************)
(* Model of 05a-apply_ica.py: main() maps apply_ica over the product of    *)
(* subjects, runs and sessions with a job pool; apply_ica loads epochs,    *)
(* raw data and one ICA decomposition per channel type, flags ECG and EOG  *)
(* components, excludes them together with the manual list, and saves the  *)
(* cleaned epochs and an HTML report.                                      *)
(*                                                                         *)
(* Library calls are modelled by what they do to the files and objects the *)
(* script handles: a path is a directory and a list of name tokens, an     *)
(* epochs object is the list of ICA exclusions applied to it, a report is  *)
(* the list of its figure captions, a channel pick is the increasing list  *)
(* of channel indices of that kind.  epochs.save and report.save replace   *)
(* the file at their path.                                                 *)
(***************************************************************************)
EXTENDS Integers, Sequences, FiniteSets, TLC

\* ---------------------------------------------------------------- bounds
\* subjects, runs and channels of the recordings that are enumerated
NumSubjects == 2
NumRuns == 2
NumChannels == 3

\* config.N_JOBS: the size of the job pool (line 241)
N_JOBS == 2

\* ------------------------------------------------------- generic helpers
ToSet(s) == {s[k] : k \in 1..Len(s)}

Tok(key, val) == <<key, val>>

NoPath == [dir |-> <<>>, name |-> <<>>]

\* op.join(deriv_path, name)
join(dir, name) == [dir |-> dir, name |-> name]

IsPrefix(p, s) == Len(p) <= Len(s) /\ SubSeq(s, 1, Len(p)) = p

\* ---------------------------------------------------------- configuration
VARIABLES cfg, main_pc, main_log, next_idx, w, epo_disk, report_disk

vars == <<cfg, main_pc, main_log, next_idx, w, epo_disk, report_disk>>

\* the kinds of channel of raw.info the script picks by: a MEG or EEG
\* sensor, an ECG channel, an EOG channel
ChKinds == {"data", "ecg", "eog"}

\* the values of config.ch_types
ChTypeLists == {<<"meg">>, <<"eeg">>, <<"meg", "eeg">>}

get_subjects == [k \in 1..NumSubjects |-> k]
get_runs == [k \in 1..NumRuns |-> k]
get_sessions == <<1>>
get_task == 1

\* a configuration and its input files: raw.info is the same list of
\* channel kinds for every recording; missing holds the subjects whose
\* epochs file is not on disk
Configs ==
    [use_ica : BOOLEAN,
     use_maxwell_filter : {FALSE},
     ch_types : ChTypeLists,
     info : [1..NumChannels -> ChKinds],
     missing : {{}, {get_subjects[1]}}]

\* config.rejcomps_man[subject][ch_type]
rejcomps_man(subject, ch_type) ==
    IF ch_type = "meg" THEN <<1, 10 + subject>> ELSE <<20 + subject>>

\* config.get_subject_deriv_path(subject, session, kind)
get_subject_deriv_path(subject, session) ==
    <<Tok("derivatives", 0), Tok("sub", subject), Tok("ses", session)>>

\* mne_bids.make_bids_basename: the entities that are None are left out
\* (run is <<>> for None, <<r>> for run r; acquisition, processing,
\* recording and space are None in the configuration)
make_bids_basename(subject, session, task, run) ==
    <<Tok("sub", subject), Tok("ses", session), Tok("task", task)>>
        \o (IF run = <<>> THEN <<>> ELSE <<Tok("run", run[1])>>)

\* itertools.product(get_subjects(), get_runs(), get_sessions()), in order
Tuples ==
    LET NS == Len(get_sessions)
        NR == Len(get_runs)
    IN [k \in 1..(Len(get_subjects) * NR * NS) |->
            [subject |-> get_subjects[((k - 1) \div (NR * NS)) + 1],
             run     |-> get_runs[(((k - 1) \div NS) % NR) + 1],
             session |-> get_sessions[((k - 1) % NS) + 1]]]

NT == Len(Tuples)

\* ------------------------------------------------------ library behaviour
\* mne.pick_types(raw.info, <kind>=True): indices (from 0) of the channels
RECURSIVE PickFrom(_, _, _)
PickFrom(info, kind, k) ==
    IF k > Len(info) THEN <<>>
    ELSE (IF info[k] = kind THEN <<k - 1>> ELSE <<>>) \o PickFrom(info, kind, k + 1)

pick_types(info, kind) == PickFrom(info, kind, 1)

\* line 109, the truth value of the array pick_ecg: empty is False, one
\* element is its own truth value (index 0 is False), more than one
\* element raises ValueError
ArrayTruth(a) ==
    IF Len(a) = 0 THEN "False"
    ELSE IF Len(a) = 1 THEN (IF a[1] # 0 THEN "True" ELSE "False")
    ELSE "ValueError"

\* line 169, pick_eog.any(): some element (a channel index) is nonzero
ArrayAny(a) == \E k \in 1..Len(a) : a[k] # 0

TokVal(name, key) ==
    LET ks == {k \in 1..Len(name) : name[k][1] = key}
    IN IF ks = {} THEN 0 ELSE name[CHOOSE k \in ks : TRUE][2]

\* ica.find_bads_ecg / find_bads_eog: a fixed function of the recording
\* and of the decomposition they are given
find_bads_ecg(raw_fname, ch_type) ==
    <<TokVal(raw_fname.name, "run") + (IF ch_type = "meg" THEN 0 ELSE 3)>>

find_bads_eog(raw_fname, ch_type) ==
    <<TokVal(raw_fname.name, "run") + (IF ch_type = "meg" THEN 3 ELSE 6),
      10 + TokVal(raw_fname.name, "sub")>>

\* ica.apply(epochs, exclude=...)
ica_apply(epochs, ch_type, fname_ica, exclude) ==
    Append(epochs, [ch_type |-> ch_type, ica |-> fname_ica,
                    exclude |-> ToSet(exclude)])

\* ------------------------------------------------------------- apply_ica
\* the locals of one call of apply_ica before it starts
W0 == [pc |-> "pending", i |-> 1, epochs |-> <<>>,
       fname_in |-> NoPath, fname_out |-> NoPath, bids_basename |-> <<>>,
       raw_fname_in |-> NoPath, fname_ica |-> NoPath,
       ecg_inds |-> <<>>, eog_inds |-> <<>>,
       report |-> [is_none |-> TRUE, figs |-> <<>>], report_fname |-> NoPath,
       error |-> "", log |-> <<>>, saved |-> 0, report_saved |-> 0]

NoWrite == <<>>

Res(wk, epo, rep) == [w |-> wk, epo |-> epo, rep |-> rep]

Raise(wk, err) == Res([wk EXCEPT !.pc = "raise", !.error = err], NoWrite, NoWrite)

\* variant: the raw file of the job's own run
raw_run_own(run) == run

\* line 70: the run whose raw file is loaded for the ECG / EOG epochs
raw_run(run) == get_runs[1]

\* line 96: the name of the ICA file of a channel type; the f-string
\* holds the text 'bids_basename_', the variable is not inserted
ica_name(bids_basename, ch_type) ==
    <<Tok("bids_basename", 0), Tok(ch_type, 0), Tok("-ica.fif", 0)>>

\* lines 37-89: paths, read_epochs, read_raw_fif, picks
Load(c, tp, wk) ==
    LET deriv_path == get_subject_deriv_path(tp.subject, tp.session)
        bb1 == make_bids_basename(tp.subject, tp.session, get_task, <<>>)
        fin == join(deriv_path, bb1 \o <<Tok("-epo.fif", 0)>>)
        fout == join(deriv_path, bb1 \o <<Tok("_cleaned-epo.fif", 0)>>)
        bb2 == make_bids_basename(tp.subject, tp.session, get_task, <<raw_run(tp.run)>>)
        rawf == IF c.use_maxwell_filter
                THEN join(deriv_path, bb2 \o <<Tok("_sss_raw.fif", 0)>>)
                ELSE join(deriv_path, bb2 \o <<Tok("_filt_raw.fif", 0)>>)
        w1 == [wk EXCEPT !.fname_in = fin, !.fname_out = fout]
    IN IF tp.subject \in c.missing
       THEN Raise(w1, "FileNotFoundError")
       ELSE Res([w1 EXCEPT !.log = Append(@, "Input, Output"),
                           !.bids_basename = bb2, !.raw_fname_in = rawf,
                           !.pc = IF Len(c.ch_types) = 0 THEN "done" ELSE "ecg"],
                NoWrite, NoWrite)

Caption(ch_type, kind, what) == <<ch_type, kind, what>>

\* lines 91-163: loop head, read_ica, ECG detection and its figures
ECG(c, tp, wk) ==
    LET ch_type == c.ch_types[wk.i]
        deriv_path == get_subject_deriv_path(tp.subject, tp.session)
        fica == join(deriv_path, ica_name(wk.bids_basename, ch_type))
        pick_ecg == pick_types(c.info, "ecg")
        truth == ArrayTruth(pick_ecg)
        w1 == [wk EXCEPT !.report = [is_none |-> TRUE, figs |-> <<>>],
                         !.fname_ica = fica,
                         !.log = Append(@, "Reading ICA"),
                         !.ecg_inds = <<>>]
        rf == join(deriv_path,
                   wk.bids_basename \o <<Tok(ch_type, 0), Tok("-reject_ica.html", 0)>>)
    IN IF truth = "ValueError"
       THEN Raise(w1, "ValueError")
       ELSE IF truth = "True" \/ ch_type = "meg"
       THEN Res([w1 EXCEPT
                   !.ecg_inds = find_bads_ecg(wk.raw_fname_in, ch_type),
                   !.report_fname = rf,
                   !.report = [is_none |-> FALSE,
                               figs |-> <<Caption(ch_type, "ECG", "R scores"),
                                          Caption(ch_type, "ECG", "Sources time course"),
                                          Caption(ch_type, "ECG", "Corrections")>>],
                   !.pc = "eog"],
                NoWrite, NoWrite)
       ELSE Res([w1 EXCEPT !.log = Append(@, "No ECG channel is present"),
                           !.pc = "eog"],
                NoWrite, NoWrite)

\* lines 165-207: EOG detection, its figures, report.save
EOG(c, tp, wk) ==
    LET ch_type == c.ch_types[wk.i]
        pick_eog == pick_types(c.info, "eog")
        w1 == [wk EXCEPT !.eog_inds = <<>>]
        figs == wk.report.figs
                  \o <<Caption(ch_type, "EOG", "R scores"),
                       Caption(ch_type, "EOG", "Sources time course"),
                       Caption(ch_type, "EOG", "Corrections")>>
    IN IF ArrayAny(pick_eog)
       THEN IF wk.report.is_none
            THEN Raise([w1 EXCEPT !.log = Append(@, "Using EOG channel"),
                                  !.eog_inds = find_bads_eog(wk.raw_fname_in, ch_type)],
                       "AttributeError")
            ELSE Res([w1 EXCEPT !.log = Append(@, "Using EOG channel"),
                                !.eog_inds = find_bads_eog(wk.raw_fname_in, ch_type),
                                !.report = [is_none |-> FALSE, figs |-> figs],
                                !.report_saved = @ + 1,
                                !.pc = "reject"],
                     NoWrite,
                     <<[path |-> wk.report_fname, content |-> figs]>>)
       ELSE Res([w1 EXCEPT !.log = Append(@, "No EOG channel is present"),
                           !.pc = "reject"],
                NoWrite, NoWrite)

\* variant: the manual list is left out
ica_reject_auto_only(ecg_inds, eog_inds, man) == ecg_inds \o eog_inds

\* lines 209-210
ica_reject(ecg_inds, eog_inds, man) == ecg_inds \o eog_inds \o man

\* lines 209-221: merge the exclusion lists, ica.apply, epochs.save
Reject(c, tp, wk) ==
    LET ch_type == c.ch_types[wk.i]
        rej == ica_reject(wk.ecg_inds, wk.eog_inds,
                          rejcomps_man(tp.subject, ch_type))
        ep == ica_apply(wk.epochs, ch_type, wk.fname_ica, rej)
    IN Res([wk EXCEPT !.epochs = ep,
                      !.log = @ \o <<"Rejecting", "Saving cleaned epochs">>,
                      !.saved = @ + 1,
                      !.pc = "final"],
           <<[path |-> wk.fname_out, content |-> ep]>>,
           NoWrite)

\* lines 223-230 and the loop's advance
Final(c, tp, wk) ==
    LET ch_type == c.ch_types[wk.i]
        w1 == IF wk.report.is_none THEN wk
              ELSE [wk EXCEPT !.report.figs =
                        Append(@, Caption(ch_type, "ALL(epochs)", "Corrections"))]
    IN Res([w1 EXCEPT !.i = @ + 1,
                      !.pc = IF wk.i + 1 > Len(c.ch_types) THEN "done" ELSE "ecg"],
           NoWrite, NoWrite)

\* lines 91-207: the detection half of the loop body, up to report.save
Detect(c, tp, wk) ==
    LET r == ECG(c, tp, wk)
    IN IF r.w.pc = "raise" THEN r ELSE EOG(c, tp, r.w)

\* lines 209-230: the exclusion half of the loop body, from the merge of
\* the lists over epochs.save to the end of the iteration
Exclude(c, tp, wk) ==
    LET r == Reject(c, tp, wk)
    IN Res(Final(c, tp, r.w).w, r.epo, r.rep)

\* one step of apply_ica from the position wk.pc; a step ends with the
\* file it writes
Step(c, tp, wk) ==
    CASE wk.pc = "load"   -> Load(c, tp, wk)
      [] wk.pc = "ecg"    -> Detect(c, tp, wk)
      [] wk.pc = "reject" -> Exclude(c, tp, wk)

\* variant: the exception is logged and raised again
failsafe_run_reraise(raised) == IF raised THEN "raised" ELSE "returned"

\* config.failsafe_run(on_error): the exception of the wrapped function is
\* logged and not passed on to the caller
failsafe_run(raised) == IF raised THEN "logged" ELSE "returned"

Running(wk) == wk.pc \in {"load", "ecg", "reject"}

Write(disk, wr) ==
    IF wr = NoWrite THEN disk
    ELSE [p \in DOMAIN disk \cup {wr[1].path} |->
            IF p = wr[1].path THEN wr[1].content ELSE disk[p]]

\* --------------------------------------------------------------- actions
Init ==
    /\ cfg \in Configs
    /\ main_pc = "start"
    /\ main_log = <<>>
    /\ next_idx = 1
    /\ w = [t \in 1..NT |-> W0]
    /\ epo_disk = <<>>
    /\ report_disk = <<>>

\* lines 235-239
MainStart ==
    /\ main_pc = "start"
    /\ IF cfg.use_ica
       THEN /\ main_pc' = "dispatch"
            /\ main_log' = Append(main_log, "Running Step 4: Apply ICA")
       ELSE /\ main_pc' = "done"
            /\ main_log' = main_log
    /\ UNCHANGED <<cfg, next_idx, w, epo_disk, report_disk>>

\* lines 241-244: the pool takes the next tuple of the product when a job
\* slot is free
Dispatch ==
    /\ main_pc = "dispatch"
    /\ next_idx <= NT
    /\ Cardinality({t \in 1..NT : Running(w[t])}) < N_JOBS
    /\ w' = [w EXCEPT ![next_idx].pc = "load"]
    /\ next_idx' = next_idx + 1
    /\ UNCHANGED <<cfg, main_pc, main_log, epo_disk, report_disk>>

\* a job advances by one step; an exception ends it in the wrapper
WorkerStep(t, pc) ==
    /\ w[t].pc = pc
    /\ LET r == Step(cfg, Tuples[t], w[t])
       IN IF r.w.pc = "raise"
          THEN LET out == failsafe_run(TRUE)
               IN /\ w' = [w EXCEPT ![t] = [r.w EXCEPT
                                             !.pc = "failed",
                                             !.log = Append(@, "A critical error occured.")]]
                  /\ main_pc' = IF out = "logged" THEN main_pc ELSE "aborted"
                  /\ UNCHANGED <<epo_disk, report_disk>>
          ELSE /\ w' = [w EXCEPT ![t] = r.w]
               /\ epo_disk' = Write(epo_disk, r.epo)
               /\ report_disk' = Write(report_disk, r.rep)
               /\ main_pc' = main_pc
    /\ UNCHANGED <<cfg, main_log, next_idx>>

\* lines 37-89
LoadStep(t) == WorkerStep(t, "load")

\* lines 91-207
DetectStep(t) == WorkerStep(t, "ecg")

\* lines 209-230
ExcludeStep(t) == WorkerStep(t, "reject")

\* lines 246-247: every job has returned
MainComplete ==
    /\ main_pc = "dispatch"
    /\ next_idx > NT
    /\ \A t \in 1..NT : ~Running(w[t])
    /\ main_pc' = "done"
    /\ main_log' = Append(main_log, "Completed Step 4: Apply ICA")
    /\ UNCHANGED <<cfg, next_idx, w, epo_disk, report_disk>>

Next ==
    \/ MainStart
    \/ Dispatch
    \/ \E t \in 1..NT : LoadStep(t)
    \/ \E t \in 1..NT : DetectStep(t)
    \/ \E t \in 1..NT : ExcludeStep(t)
    \/ MainComplete

Spec == Init /\ [][Next]_vars

\* ------------------------------------------------- apply_ica run on its own
\* apply_ica run from its first line to its return or its exception, with no
\* other job: the final locals and the last cleaned-epochs file it wrote
RECURSIVE Run(_, _, _, _)
Run(c, tp, wk, epo) ==
    IF ~Running(wk) THEN [w |-> wk, epo |-> epo]
    ELSE LET r == Step(c, tp, wk)
         IN Run(c, tp, r.w, IF r.epo = NoWrite THEN epo ELSE r.epo)

RunAlone(c, tp) == Run(c, tp, [W0 EXCEPT !.pc = "load"], NoWrite)

ChType(wk) == cfg.ch_types[wk.i]

HasEcgChannel == Len(pick_types(cfg.info, "ecg")) > 0

MainEnded == cfg.use_ica /\ main_pc \in {"done", "aborted"}

\* the loop body has run to its end for some channel type
IterationEnded(wk) == (wk.pc = "ecg" /\ wk.i > 1) \/ wk.pc = "done"

\* ---------------------------------------------------------------- claims

\* C1: when the loop body has ended for a channel type, the components
\* excluded from the epochs for that channel type are exactly the flagged
\* ECG components, the flagged EOG components and
\* config.rejcomps_man[subject][ch_type]; a detection that was skipped
\* contributes nothing.
C1_ExcludedIsUnion ==
    \A t \in 1..NT :
        IterationEnded(w[t]) =>
            LET wk == w[t]
                ch_type == cfg.ch_types[wk.i - 1]
                last == wk.epochs[Len(wk.epochs)]
            IN /\ Len(wk.epochs) = wk.i - 1
               /\ last.ch_type = ch_type
               /\ last.exclude =
                     ToSet(wk.ecg_inds) \cup ToSet(wk.eog_inds)
                        \cup ToSet(rejcomps_man(Tuples[t].subject, ch_type))
               /\ wk.ecg_inds =
                     (IF wk.report.is_none THEN <<>>
                      ELSE find_bads_ecg(wk.raw_fname_in, ch_type))
               /\ wk.eog_inds =
                     (IF ArrayAny(pick_types(cfg.info, "eog"))
                      THEN find_bads_eog(wk.raw_fname_in, ch_type)
                      ELSE <<>>)

C1_Witness ==
    \E t \in 1..NT :
        /\ IterationEnded(w[t])
        /\ w[t].ecg_inds # <<>>
        /\ w[t].eog_inds # <<>>
        /\ Cardinality(w[t].epochs[Len(w[t].epochs)].exclude) > 3

\* C2: a job that raises is logged and the batch goes on: main is never
\* aborted, when main ends every tuple of the product has been run, and
\* every tuple that completes on its own has its cleaned epochs on disk.
C2_FailureIsolated ==
    /\ main_pc # "aborted"
    /\ \A t \in 1..NT :
          w[t].pc = "failed" => w[t].log[Len(w[t].log)] = "A critical error occured."
    /\ MainEnded =>
          \A t \in 1..NT :
             /\ w[t].pc \in {"done", "failed"}
             /\ RunAlone(cfg, Tuples[t]).w.pc = "done" =>
                   /\ w[t].pc = "done"
                   /\ w[t].fname_out \in DOMAIN epo_disk

C2_Witness ==
    /\ main_pc = "done"
    /\ \E t1, t2 \in 1..NT :
          /\ t1 < t2
          /\ Tuples[t1].subject # Tuples[t2].subject
          /\ w[t1].pc = "failed"
          /\ w[t2].pc = "done"
          /\ w[t2].fname_out \in DOMAIN epo_disk

\* C3: no two dispatched tuples write the same cleaned-epochs file or the
\* same report file.
C3_NoSharedOutputFile ==
    \A t1, t2 \in 1..NT :
        t1 # t2 =>
            /\ (w[t1].saved > 0 /\ w[t2].saved > 0)
                  => w[t1].fname_out # w[t2].fname_out
            /\ (w[t1].report_saved > 0 /\ w[t2].report_saved > 0)
                  => w[t1].report_fname # w[t2].report_fname

\* C4: when main has completed, every cleaned-epochs file holds what the
\* job writing it leaves when run on its own, whatever the interleaving of
\* the jobs was; a job that saves nothing alone leaves no file.
C4_FinalFilesOrderFree ==
    (cfg.use_ica /\ main_pc = "done") =>
        \A t \in 1..NT :
            LET r == RunAlone(cfg, Tuples[t])
            IN IF r.epo = NoWrite
               THEN r.w.fname_out \notin DOMAIN epo_disk
               ELSE /\ r.epo[1].path = r.w.fname_out
                    /\ r.w.fname_out \in DOMAIN epo_disk
                    /\ epo_disk[r.w.fname_out] = r.epo[1].content

C4_Witness ==
    /\ main_pc = "done"
    /\ \E t1, t2 \in 1..NT :
          /\ t1 # t2
          /\ w[t1].fname_out = w[t2].fname_out
          /\ w[t1].saved > 1
          /\ w[t2].saved > 1
          /\ Len(epo_disk[w[t1].fname_out]) = 2

\* C5: the ICA file loaded for a channel type is named after the BIDS
\* basename of the subject and session: its name starts with the basename
\* in use, and jobs of different subjects load differently named files.
C5_IcaFileOfSubject ==
    \A t1, t2 \in 1..NT :
        (w[t1].fname_ica # NoPath /\ w[t2].fname_ica # NoPath) =>
            /\ IsPrefix(w[t1].bids_basename, w[t1].fname_ica.name)
            /\ Tuples[t1].subject # Tuples[t2].subject
                  => w[t1].fname_ica.name # w[t2].fname_ica.name

\* C6: once the loop body has ended for a channel type with a report
\* created, the report file is on disk and holds every figure added to
\* the report.
C6_ReportSavedComplete ==
    \A t \in 1..NT :
        (IterationEnded(w[t]) /\ ~w[t].report.is_none) =>
            /\ w[t].report_fname \in DOMAIN report_disk
            /\ report_disk[w[t].report_fname] = w[t].report.figs

\* C7: when the detection half of the loop body is over for a channel
\* type, ECG detection has run (its report exists) exactly when the raw
\* data has an ECG channel or the channel type is 'meg'; otherwise nothing
\* is flagged and 'No ECG channel is present' is logged.
C7_EcgRunsIffChannelOrMeg ==
    \A t \in 1..NT :
        w[t].pc = "reject" =>
            /\ ~w[t].report.is_none <=> (HasEcgChannel \/ ChType(w[t]) = "meg")
            /\ w[t].report.is_none =>
                  /\ w[t].ecg_inds = <<>>
                  /\ "No ECG channel is present" \in ToSet(w[t].log)

\* C8: with no or one ECG channel and any EOG channels, the loop body
\* never raises for 'meg' or 'eeg': a job fails only for a missing input
\* file, and with an EOG channel present the EOG components are flagged
\* when the exclusion is applied.
C8_IterationNeverRaises ==
    \A t \in 1..NT :
        Len(pick_types(cfg.info, "ecg")) <= 1 =>
            /\ w[t].pc = "failed" => w[t].error = "FileNotFoundError"
            /\ (w[t].pc = "reject" /\ ArrayAny(pick_types(cfg.info, "eog")))
                  => w[t].eog_inds # <<>>

\* C9: a cleaned-epochs file on disk is always cleaned for every channel
\* type of config.ch_types, in that order.
C9_FileCleanedForAllChTypes ==
    \A p \in DOMAIN epo_disk :
        [k \in 1..Len(epo_disk[p]) |-> epo_disk[p][k].ch_type] = cfg.ch_types

====
